---------------------------- MODULE Spec2Model ----------------------------
(***************************************************************************)
(* The repository store of ipm.repo (src/src/modules/repo.rs) over a model *)
(* of the file system it works on.                                         *)
(*                                                                         *)
(* A string is a sequence of tokens ("a", "-", "1", ".", "/", "..", ...),  *)
(* so that formatting "{name}-{version}" and splitting a string into path  *)
(* components are computed, not assumed.  A path (PathBuf) is a sequence   *)
(* of components, each a string; every path of the model is absolute.      *)
(* The file system maps each existing canonical path to a node.            *)
(***************************************************************************)
EXTENDS Integers, Sequences, FiniteSets, Bags, TLC

VARIABLES
    fs,        \* the file system: canonical path -> node
    repo,      \* the Repository handle the caller holds (init / load result)
    result,    \* the outcome of the last operation
    inited,    \* history: the (path, name) of every successful init
    added,     \* history: (root, name, version) added while only adds happened
    removed,   \* history: (root, name, version) removed and not added since
    stuck,     \* history: (root, name, version) whose add failed in the copy
               \* step, with no remove_package(name, version) call since
    procs,     \* the processes that run add_package side by side
    walk,      \* the loop of a load that runs step by step
    url,       \* a Url (src/src/utils/url.rs)
    params     \* the HashMap a caller got from search_params_mut

vars == <<fs, repo, result, inited, added, removed, stuck, procs, walk, url, params>>

\* what the operations of the store never touch
side == <<procs, walk, url, params>>

-----------------------------------------------------------------------------
(* Bounds of the model *)

\* deepest chain of not-yet-existing directories below a start path of load
MaxDepth == 1

\* most keys a caller inserts into, and most it removes from, one HashMap
MaxEdits == 1

-----------------------------------------------------------------------------
(* Strings and paths *)

SEP == "/"
DOTDOT == <<"..">>
PACKAGES == <<"packages">>
CONFIG_TOML == <<"config", ".", "toml">>
IPAK == <<"ipak">>
INITIAL_VERSION == <<"0", ".", "1", ".", "0">>

\* format!("{}-{}", name, version)
EntryName(name, version) == name \o <<"-">> \o version

\* index of the first SEP token of s, Len(s)+1 when there is none
RECURSIVE FirstSep(_, _)
FirstSep(s, i) ==
    IF i > Len(s) THEN i
    ELSE IF s[i] = SEP THEN i
    ELSE FirstSep(s, i + 1)

\* Path::components of a string: split at the separators, empty ones dropped
RECURSIVE Components(_)
Components(s) ==
    IF s = <<>> THEN <<>>
    ELSE IF s[1] = SEP THEN Components(Tail(s))
    ELSE LET k == FirstSep(s, 1)
         IN  <<SubSeq(s, 1, k - 1)>> \o Components(SubSeq(s, k, Len(s)))

IsAbsolute(s) == Len(s) > 0 /\ s[1] = SEP

\* PathBuf::join: an absolute argument replaces the base
Join(base, s) == IF IsAbsolute(s) THEN Components(s) ELSE base \o Components(s)

\* Path::parent is lexical: the path without its last component
HasParent(p) == Len(p) > 0
Parent(p) == SubSeq(p, 1, Len(p) - 1)

\* Path::file_name: the last component (none for ".." and for the root)
FileName(p) == p[Len(p)]

\* index of the last "." token of a file name, 0 when there is none
RECURSIVE LastDot(_, _)
LastDot(n, i) ==
    IF i = 0 THEN 0
    ELSE IF n[i] = "." THEN i
    ELSE LastDot(n, i - 1)

\* Path::extension: what follows the last ".", unless the only "." leads
HasExtension(p) ==
    /\ Len(p) > 0
    /\ FileName(p) # DOTDOT
    /\ LastDot(FileName(p), Len(FileName(p))) > 1
Extension(p) ==
    LET n == FileName(p)
    IN  SubSeq(n, LastDot(n, Len(n)) + 1, Len(n))

IsPrefix(p, q) == Len(p) <= Len(q) /\ SubSeq(q, 1, Len(p)) = p
IsStrictPrefix(p, q) == Len(p) < Len(q) /\ SubSeq(q, 1, Len(p)) = p

-----------------------------------------------------------------------------
(* The file system *)

DirNode == [kind |-> "dir"]
FileNode(c) == [kind |-> "file", content |-> c]

Text(toks) == [t |-> "text", text |-> toks]
Archive(n, v, b) == [t |-> "ipak", name |-> n, version |-> v, bytes |-> b]
Junk == [t |-> "junk"]

IsDirAt(f, c) == c \in DOMAIN f /\ f[c].kind = "dir"
IsFileAt(f, c) == c \in DOMAIN f /\ f[c].kind = "file"

\* Path resolution by the kernel: walk the components from the root; every
\* component but the last is looked up in an existing directory, and ".."
\* steps to the parent of the directory reached (the root is its own parent).
RECURSIVE Walk(_, _, _)
Walk(f, cur, rest) ==
    IF rest = <<>> THEN [ok |-> TRUE, at |-> cur]
    ELSE IF ~IsDirAt(f, cur) THEN [ok |-> FALSE, at |-> cur]
    ELSE Walk(f,
              IF Head(rest) = DOTDOT
                  THEN (IF cur = <<>> THEN cur ELSE Parent(cur))
                  ELSE Append(cur, Head(rest)),
              Tail(rest))

Resolve(f, p) == Walk(f, <<>>, p)

\* Path::exists
Exists(f, p) == Resolve(f, p).ok /\ Resolve(f, p).at \in DOMAIN f
\* Path::is_dir
IsDir(f, p) == Resolve(f, p).ok /\ IsDirAt(f, Resolve(f, p).at)
IsFile(f, p) == Resolve(f, p).ok /\ IsFileAt(f, Resolve(f, p).at)

\* mkdir(2): "" on success, else the errno
MkdirErr(f, p) ==
    IF p = <<>> THEN "EEXIST"
    ELSE LET par == Resolve(f, Parent(p))
         IN  IF ~par.ok \/ par.at \notin DOMAIN f
                 THEN (IF IsFileAt(f, par.at) THEN "ENOTDIR" ELSE "ENOENT")
             ELSE IF f[par.at].kind = "file" THEN "ENOTDIR"
             ELSE IF FileName(p) = DOTDOT THEN "EEXIST"
             ELSE IF Append(par.at, FileName(p)) \in DOMAIN f THEN "EEXIST"
             ELSE ""

Mkdir(f, p) == (Append(Resolve(f, Parent(p)).at, FileName(p)) :> DirNode) @@ f

\* fs::create_dir_all: mkdir; on ENOENT create the parent first and retry;
\* any other error is a success when the path is a directory already.
RECURSIVE CreateDirAll(_, _)
CreateDirAll(f, p) ==
    LET e == MkdirErr(f, p)
    IN  IF e = "" THEN [ok |-> TRUE, fs |-> Mkdir(f, p)]
        ELSE IF e # "ENOENT"
            THEN [ok |-> IsDir(f, p), fs |-> f]
        ELSE IF ~HasParent(p) THEN [ok |-> FALSE, fs |-> f]
        ELSE LET up == CreateDirAll(f, Parent(p))
             IN  IF ~up.ok THEN up
                 ELSE IF MkdirErr(up.fs, p) = ""
                     THEN [ok |-> TRUE, fs |-> Mkdir(up.fs, p)]
                 ELSE [ok |-> IsDir(up.fs, p), fs |-> up.fs]

\* fs::write / the destination of fs::copy: create or replace a file.
\* Fails when the parent is no directory or the target is a directory.
CanWriteFile(f, p) ==
    /\ Len(p) > 0
    /\ FileName(p) # DOTDOT
    /\ IsDir(f, Parent(p))
    /\ ~IsDirAt(f, Append(Resolve(f, Parent(p)).at, FileName(p)))

WriteFile(f, p, c) ==
    LET at == Append(Resolve(f, Parent(p)).at, FileName(p))
    IN  (at :> FileNode(c)) @@ [q \in DOMAIN f \ {at} |-> f[q]]

\* the entries of a directory (fs::read_dir), as canonical paths
Children(f, d) == {q \in DOMAIN f : Len(q) = Len(d) + 1 /\ IsPrefix(d, q)}

\* fs::remove_dir_all on a path that lstat finds: the contents of the
\* directory are unlinked through its descriptor, then the directory is
\* removed BY PATH (unlinkat(AT_FDCWD, path, AT_REMOVEDIR)); that last step
\* fails when the path no longer resolves or ends in "..".
RemoveDirAll(f, p) ==
    LET t == Resolve(f, p).at
        emptied == [q \in {q \in DOMAIN f : ~IsStrictPrefix(t, q)} |-> f[q]]
        again == Resolve(emptied, p)
    IN  IF ~IsDirAt(f, t) THEN [ok |-> FALSE, fs |-> f]
        ELSE IF \/ ~again.ok
                \/ again.at \notin DOMAIN emptied
                \/ p = <<>>
                \/ FileName(p) = DOTDOT
                \/ again.at = <<>>
            THEN [ok |-> FALSE, fs |-> emptied]
        ELSE [ok |-> TRUE,
              fs |-> [q \in DOMAIN emptied \ {again.at} |-> emptied[q]]]

-----------------------------------------------------------------------------
(* RepositoryConfig and its TOML form *)

RepositoryConfig(n, v) == [name |-> n, version |-> v]

\* a TOML basic string escapes the quote and the backslash
RECURSIVE TomlEscape(_)
TomlEscape(s) ==
    IF s = <<>> THEN <<>>
    ELSE IF Head(s) \in {"\"", "\\"}
        THEN <<"\\", Head(s)>> \o TomlEscape(Tail(s))
    ELSE <<Head(s)>> \o TomlEscape(Tail(s))

TomlString(s) == <<"\"">> \o TomlEscape(s) \o <<"\"">>

\* toml::to_string(&config): one "key = string" line per field
ToToml(config) ==
    <<"name", "=">> \o TomlString(config.name) \o <<"\n">>
        \o <<"version", "=">> \o TomlString(config.version) \o <<"\n">>

\* read a basic string whose opening quote is at index i - 1:
\* the value read so far is acc; stops after the closing quote
RECURSIVE ReadTomlString(_, _, _)
ReadTomlString(t, i, acc) ==
    IF i > Len(t) THEN [ok |-> FALSE, value |-> acc, next |-> i]
    ELSE IF t[i] = "\"" THEN [ok |-> TRUE, value |-> acc, next |-> i + 1]
    ELSE IF t[i] = "\\"
        THEN (IF i + 1 > Len(t)
                  THEN [ok |-> FALSE, value |-> acc, next |-> i]
                  ELSE ReadTomlString(t, i + 2, Append(acc, t[i + 1])))
    ELSE ReadTomlString(t, i + 1, Append(acc, t[i]))

\* the tokens of t from index i on start with pre
StartsAt(t, i, pre) ==
    i + Len(pre) - 1 <= Len(t) /\ SubSeq(t, i, i + Len(pre) - 1) = pre

\* toml::from_str::<RepositoryConfig>: both fields, each a string
FromToml(t) ==
    LET bad == [ok |-> FALSE, config |-> RepositoryConfig(<<>>, <<>>)]
    IN  IF ~StartsAt(t, 1, <<"name", "=", "\"">>) THEN bad
        ELSE LET n == ReadTomlString(t, 4, <<>>)
             IN  IF ~n.ok \/ ~StartsAt(t, n.next, <<"\n", "version", "=", "\"">>)
                     THEN bad
                 ELSE LET v == ReadTomlString(t, n.next + 4, <<>>)
                      IN  IF v.ok /\ v.next = Len(t) /\ t[v.next] = "\n"
                              THEN [ok |-> TRUE,
                                    config |-> RepositoryConfig(n.value, v.value)]
                              ELSE bad

-----------------------------------------------------------------------------
(* The metadata extractor (ipak::modules::pkg::metadata::get), an external  *)
(* service: it parses the archive a path names, or fails.                  *)

PackageData(n, v) == [name |-> n, version |-> v]

CanExtract(f, p) == IsFile(f, p) /\ f[Resolve(f, p).at].content.t = "ipak"

Extract(f, p) ==
    LET c == f[Resolve(f, p).at].content
    IN  PackageData(c.name, c.version)

-----------------------------------------------------------------------------
(* The worlds the program starts in *)

IN_DIR == << <<"in">> >>
OLD == << <<"old">> >>
FRESH == << <<"old">>, <<"w">>, <<"r">> >>

FileA == Append(IN_DIR, <<"a", ".", "ipak">>)
FileA2 == Append(IN_DIR, <<"a2", ".", "pkg">>)
FileH == Append(IN_DIR, <<"h", ".", "ipak">>)
FileK == Append(IN_DIR, <<"k", ".", "ipak">>)
FileBad == Append(IN_DIR, <<"bad", ".", "ipak">>)

OldPackages == Append(OLD, PACKAGES)
OldEntry == Append(OldPackages, <<"m", "-", "1">>)

\* No repository yet.  /in holds the archives to add: two with the same
\* (name, version) and different bytes, one of them under a file name
\* without the archive extension, two whose distinct (name, version) pairs
\* format to the same entry name, and a file that is no archive.
EmptyWorld ==
    (<<>> :> DirNode)
    @@ (IN_DIR :> DirNode)
    @@ (FileA :> FileNode(Archive(<<"a">>, <<"1">>, "A")))
    @@ (FileA2 :> FileNode(Archive(<<"a">>, <<"1">>, "A2")))
    @@ (FileH :> FileNode(Archive(<<"a", "-", "1">>, <<"2">>, "H")))
    @@ (FileK :> FileNode(Archive(<<"a">>, <<"1", "-", "2">>, "K")))
    @@ (FileBad :> FileNode(Junk))

\* A repository /old made by an earlier run, whose store holds one entry
\* with two archives and a text file, and a stray archive directly in
\* packages/.  /in holds one archive and a file that is no archive.
OldWorld ==
    (<<>> :> DirNode)
    @@ (IN_DIR :> DirNode)
    @@ (FileA :> FileNode(Archive(<<"a">>, <<"1">>, "A")))
    @@ (FileBad :> FileNode(Junk))
    @@ (OLD :> DirNode)
    @@ (Append(OLD, CONFIG_TOML)
            :> FileNode(Text(ToToml(RepositoryConfig(<<"old">>, INITIAL_VERSION)))))
    @@ (OldPackages :> DirNode)
    @@ (Append(OldPackages, <<"stray", ".", "ipak">>)
            :> FileNode(Archive(<<"s">>, <<"1">>, "S")))
    @@ (OldEntry :> DirNode)
    @@ (Append(OldEntry, <<"m", ".", "ipak">>)
            :> FileNode(Archive(<<"m">>, <<"1">>, "M")))
    @@ (Append(OldEntry, <<"n", ".", "ipak">>)
            :> FileNode(Archive(<<"n">>, <<"1">>, "N")))
    @@ (Append(OldEntry, <<"notes", ".", "txt">>)
            :> FileNode(Text(<<"notes">>)))

NoRepo == [open |-> FALSE]
Repository(p, c) == [open |-> TRUE, path |-> p, config |-> c]

\* the processes of the race, the stepwise load and the Url, before they start
Procs == {"p1", "p2"}
IdleProc == [pc |-> "idle", package_path |-> <<>>, name |-> <<>>,
             version |-> <<>>, status |-> ""]
NoWalk == [pc |-> "idle", start |-> <<>>, current_path |-> <<>>,
           checked |-> <<>>, status |-> "", repo |-> NoRepo]
NoUrl == [parsed |-> FALSE]
NoParams == [taken |-> FALSE, moved |-> FALSE]

\* no operation yet, and an empty history
Fresh ==
    /\ result = [op |-> "none"]
    /\ inited = {}
    /\ added = [clean |-> TRUE, set |-> {}]
    /\ removed = {}
    /\ stuck = {}

AtRest ==
    /\ procs = [p \in Procs |-> IdleProc]
    /\ walk = NoWalk
    /\ url = NoUrl
    /\ params = NoParams

Init ==
    /\ fs \in {EmptyWorld, OldWorld}
    /\ repo = NoRepo
    /\ Fresh
    /\ AtRest

-----------------------------------------------------------------------------
(* Inputs *)

\* (name, path) arguments of init: a path to create (with two names, one
\* holding a quote), an existing directory, an existing file, and a path
\* below a file
InitArgs ==
    { <<<<"demo">>, FRESH>>,
      <<<<"q", "\"">>, FRESH>>,
      <<<<"demo">>, IN_DIR>>,
      <<<<"demo">>, FileA>>,
      <<<<"demo">>, Append(FileA, <<"z">>)>> }

\* p followed by k directories that do not exist
RECURSIVE Deeper(_, _)
Deeper(p, k) == IF k = 0 THEN p ELSE Deeper(Append(p, <<"d">>), k - 1)

LoadBases == {IN_DIR, Parent(FRESH), Append(FRESH, PACKAGES)}
LoadPaths == {OLD, FRESH} \cup {Deeper(b, k) : b \in LoadBases, k \in 0..MaxDepth}

PackagePaths == {FileA, FileA2, FileH, FileK, FileBad}

\* (name, version) arguments of remove_package: the pairs of the archives,
\* and versions that hold separators and ".." segments
RemoveArgs ==
    { <<<<"m">>, <<"1">>>>,
      <<<<"a">>, <<"1">>>>,
      <<<<"a", "-", "1">>, <<"2">>>>,
      <<<<"a">>, <<"1", "-", "2">>>>,
      <<<<"a">>, <<"1", SEP, "..">>>>,
      <<<<"a">>, <<"1", SEP, "..", SEP, "..">>>> }

-----------------------------------------------------------------------------
(* Repository::init *)

InitVersionWrong == <<"0", ".", "1", ".", "1">>

\* the version a new config gets
InitVersion == INITIAL_VERSION

\* an init that only refuses a directory that already holds a config.toml
InitOutcomeIntoExisting(f, name, path) ==
    LET config == RepositoryConfig(name, InitVersion)
        made == CreateDirAll(f, path)
        pkgs == CreateDirAll(made.fs, Join(path, PACKAGES))
        config_path == Join(path, CONFIG_TOML)
    IN  IF Exists(f, config_path)
            THEN [status |-> "AlreadyExists", fs |-> f]
        ELSE IF ~made.ok THEN [status |-> "Io", fs |-> made.fs]
        ELSE IF ~pkgs.ok THEN [status |-> "Io", fs |-> pkgs.fs]
        ELSE IF ~CanWriteFile(pkgs.fs, config_path)
            THEN [status |-> "Io", fs |-> pkgs.fs]
        ELSE [status |-> "Ok",
              fs |-> WriteFile(pkgs.fs, config_path, Text(ToToml(config)))]

InitOutcome(f, name, path) ==
    LET config == RepositoryConfig(name, InitVersion)
        made == CreateDirAll(f, path)
        pkgs == CreateDirAll(made.fs, Join(path, PACKAGES))
        config_path == Join(path, CONFIG_TOML)
    IN  IF Exists(f, path)
            THEN [status |-> "AlreadyExists", fs |-> f]
        ELSE IF ~made.ok THEN [status |-> "Io", fs |-> made.fs]
        ELSE IF ~pkgs.ok THEN [status |-> "Io", fs |-> pkgs.fs]
        ELSE IF ~CanWriteFile(pkgs.fs, config_path)
            THEN [status |-> "Io", fs |-> pkgs.fs]
        ELSE [status |-> "Ok",
              fs |-> WriteFile(pkgs.fs, config_path, Text(ToToml(config)))]

init(name, path) ==
    LET out == InitOutcome(fs, name, path)
    IN  /\ fs' = out.fs
        /\ result' = [op |-> "init", name |-> name, path |-> path,
                      status |-> out.status]
        /\ IF out.status = "Ok"
              THEN /\ repo' = Repository(path, RepositoryConfig(name, InitVersion))
                   /\ inited' = inited \cup {[path |-> path, name |-> name]}
              ELSE UNCHANGED <<repo, inited>>
        /\ UNCHANGED <<added, removed, stuck, side>>

-----------------------------------------------------------------------------
(* Repository::load *)

\* the loop of load: the first directory of the chain current, parent, ...
\* whose config.toml exists decides; without a parent the search fails
RECURSIVE LoadFrom(_, _)
LoadFrom(f, current_path) ==
    LET config_path == Join(current_path, CONFIG_TOML)
    IN  IF Exists(f, config_path)
            THEN IF ~IsFile(f, config_path)
                     \/ f[Resolve(f, config_path).at].content.t # "text"
                     THEN [status |-> "Io", repo |-> NoRepo]
                 ELSE LET parsed ==
                              FromToml(f[Resolve(f, config_path).at].content.text)
                      IN  IF parsed.ok
                              THEN [status |-> "Ok",
                                    repo |-> Repository(current_path, parsed.config)]
                              ELSE [status |-> "TomlDe", repo |-> NoRepo]
        ELSE IF HasParent(current_path)
            THEN LoadFrom(f, Parent(current_path))
        ELSE [status |-> "ConfigNotFound", repo |-> NoRepo]

\* a load that looks at the start directory only
LoadFromStartOnly(f, path) ==
    IF Exists(f, Join(path, CONFIG_TOML)) THEN LoadFrom(f, path)
    ELSE [status |-> "ConfigNotFound", repo |-> NoRepo]

\* a load that skips the start directory and begins at its parent
LoadFromParentFirst(f, path) ==
    IF HasParent(path) THEN LoadFrom(f, Parent(path))
    ELSE [status |-> "ConfigNotFound", repo |-> NoRepo]

\* a load that reads config.toml without the existence check at the root
LoadReportsIoAtRoot(f, path) ==
    IF LoadFrom(f, path).status = "ConfigNotFound"
        THEN [status |-> "Io", repo |-> NoRepo]
        ELSE LoadFrom(f, path)

LoadOutcome(f, path) == LoadFrom(f, path)

load(path) ==
    LET out == LoadOutcome(fs, path)
    IN  /\ result' = [op |-> "load", path |-> path, status |-> out.status,
                      repo |-> out.repo]
        /\ repo' = IF out.status = "Ok" THEN out.repo ELSE repo
        /\ UNCHANGED <<fs, inited, added, removed, stuck, side>>

-----------------------------------------------------------------------------
(* Repository::add_package *)

PackageDir(root, name, version) ==
    Join(Join(root, PACKAGES), EntryName(name, version))

\* an add_package without the existence check of the entry directory
AddOutcomeOverwrite(f, root, package_path) ==
    LET package == Extract(f, package_path)
        package_dir == PackageDir(root, package.name, package.version)
        made == CreateDirAll(f, package_dir)
        dest == Append(package_dir, FileName(package_path))
        source == f[Resolve(f, package_path).at].content
    IN  IF ~CanExtract(f, package_path)
            THEN [status |-> "Extract", fs |-> f,
                  name |-> <<>>, version |-> <<>>]
        ELSE IF ~made.ok \/ ~CanWriteFile(made.fs, dest)
            THEN [status |-> "Io", fs |-> made.fs,
                  name |-> package.name, version |-> package.version]
        ELSE [status |-> "Ok", fs |-> WriteFile(made.fs, dest, source),
              name |-> package.name, version |-> package.version]

\* an add_package that copies the archive before it reports the entry taken
AddOutcomeDirtyFailure(f, root, package_path) ==
    LET package == Extract(f, package_path)
        package_dir == PackageDir(root, package.name, package.version)
        dest == Append(package_dir, FileName(package_path))
        source == f[Resolve(f, package_path).at].content
    IN  IF CanExtract(f, package_path) /\ IsDir(f, package_dir)
            THEN [status |-> "PackageAlreadyExists",
                  fs |-> WriteFile(f, dest, source),
                  name |-> package.name, version |-> package.version]
        ELSE AddOutcomeOverwrite(f, root, package_path)

AddOutcome(f, root, package_path) ==
    LET package == Extract(f, package_path)
        package_dir == PackageDir(root, package.name, package.version)
        made == CreateDirAll(f, package_dir)
        dest == Append(package_dir, FileName(package_path))
        source == f[Resolve(f, package_path).at].content
    IN  IF ~CanExtract(f, package_path)
            THEN [status |-> "Extract", fs |-> f,
                  name |-> <<>>, version |-> <<>>]
        ELSE IF Exists(f, package_dir)
            THEN [status |-> "PackageAlreadyExists", fs |-> f,
                  name |-> package.name, version |-> package.version]
        ELSE IF ~made.ok \/ ~CanWriteFile(made.fs, dest)
            THEN [status |-> "Io", fs |-> made.fs,
                  name |-> package.name, version |-> package.version]
        ELSE [status |-> "Ok", fs |-> WriteFile(made.fs, dest, source),
              name |-> package.name, version |-> package.version]

Triple(root, name, version) ==
    [root |-> root, name |-> name, version |-> version]

add_package(package_path) ==
    /\ repo.open
    /\ LET out == AddOutcome(fs, repo.path, package_path)
           t == Triple(repo.path, out.name, out.version)
       IN  /\ fs' = out.fs
           /\ result' = [op |-> "add", root |-> repo.path,
                         package_path |-> package_path, status |-> out.status,
                         name |-> out.name, version |-> out.version]
           /\ added' = IF out.status = "Ok" /\ added.clean
                           THEN [added EXCEPT !.set = @ \cup {t}]
                       ELSE added
           /\ removed' = IF out.status = "Ok"
                             THEN {[r EXCEPT !.quiet =
                                        IF r.root = repo.path THEN FALSE ELSE @]
                                   : r \in {x \in removed :
                                            Triple(x.root, x.name, x.version) # t}}
                             ELSE removed
    /\ UNCHANGED <<repo, inited, stuck, side>>

-----------------------------------------------------------------------------
(* Repository::remove_package *)

\* a remove_package that reports success without deleting
RemoveOutcomeKeeps(f, root, name, version) ==
    IF ~Exists(f, PackageDir(root, name, version))
        THEN [status |-> "PackageNotFound", fs |-> f]
        ELSE [status |-> "Ok", fs |-> f]

\* a remove_package that empties the entry directory and leaves it there
RemoveOutcomeLeavesDir(f, root, name, version) ==
    LET package_dir == PackageDir(root, name, version)
        t == Resolve(f, package_dir).at
    IN  IF ~Exists(f, package_dir)
            THEN [status |-> "PackageNotFound", fs |-> f]
        ELSE [status |-> "Ok",
              fs |-> [q \in {q \in DOMAIN f : ~IsStrictPrefix(t, q)} |-> f[q]]]

RemoveOutcome(f, root, name, version) ==
    LET package_dir == PackageDir(root, name, version)
        gone == RemoveDirAll(f, package_dir)
    IN  IF ~Exists(f, package_dir)
            THEN [status |-> "PackageNotFound", fs |-> f]
        ELSE IF ~gone.ok THEN [status |-> "Io", fs |-> gone.fs]
        ELSE [status |-> "Ok", fs |-> gone.fs]

remove_package(name, version) ==
    /\ repo.open
    /\ LET out == RemoveOutcome(fs, repo.path, name, version)
       IN  /\ fs' = out.fs
           /\ result' = [op |-> "remove", root |-> repo.path, name |-> name,
                         version |-> version, status |-> out.status,
                         err |-> EntryName(name, version)]
           /\ removed' = IF out.status = "Ok"
                             THEN {r \in removed :
                                       Triple(r.root, r.name, r.version)
                                           # Triple(repo.path, name, version)}
                                  \cup {[root |-> repo.path, name |-> name,
                                         version |-> version, quiet |-> TRUE]}
                             ELSE removed
           /\ added' = IF out.fs # fs THEN [clean |-> FALSE, set |-> {}]
                       ELSE added
           /\ stuck' = stuck \ {Triple(repo.path, name, version)}
    /\ UNCHANGED <<repo, inited, side>>

-----------------------------------------------------------------------------
(* Repository::list_packages *)

\* a listing that takes an archive only when it is alone in its directory
ListedFilesOnePerDir(f, root) ==
    LET packages_dir == Resolve(f, Join(root, PACKAGES)).at
        dirs == {d \in Children(f, packages_dir) : IsDirAt(f, d)}
        all == {q \in UNION {Children(f, d) : d \in dirs} :
                   HasExtension(q) /\ Extension(q) = IPAK}
    IN  {q \in all : \A o \in all : Parent(o) = Parent(q) => o = q}

\* the files the two nested read_dir loops hand to the extractor: the
\* entries with the archive extension of the directories directly in packages/
ListedFiles(f, root) ==
    LET packages_dir == Resolve(f, Join(root, PACKAGES)).at
        dirs == {d \in Children(f, packages_dir) : IsDirAt(f, d)}
    IN  {q \in UNION {Children(f, d) : d \in dirs} :
            HasExtension(q) /\ Extension(q) = IPAK}

\* the Vec the listing returns, up to the order of enumeration
DescriptorBag(f, files) ==
    [pd \in {Extract(f, q) : q \in files}
        |-> Cardinality({q \in files : Extract(f, q) = pd})]

\* a listing that skips the archives it cannot parse and returns the rest
ListOutcomeSkipsBad(f, root) ==
    LET files == {q \in ListedFiles(f, root) : CanExtract(f, q)}
    IN  IF ~IsDir(f, Join(root, PACKAGES))
            THEN [status |-> "Io", packages |-> EmptyBag]
        ELSE [status |-> "Ok", packages |-> DescriptorBag(f, files)]

ListOutcome(f, root) ==
    LET files == ListedFiles(f, root)
    IN  IF ~IsDir(f, Join(root, PACKAGES))
            THEN [status |-> "Io", packages |-> EmptyBag]
        ELSE IF \E q \in files : ~CanExtract(f, q)
            THEN [status |-> "Extract", packages |-> EmptyBag]
        ELSE [status |-> "Ok", packages |-> DescriptorBag(f, files)]

list_packages ==
    /\ repo.open
    /\ LET out == ListOutcome(fs, repo.path)
       IN  result' = [op |-> "list", root |-> repo.path, status |-> out.status,
                      packages |-> out.packages]
    /\ UNCHANGED <<fs, repo, inited, added, removed, stuck, side>>

-----------------------------------------------------------------------------
(* The specification *)

Next ==
    \/ \E args \in InitArgs : init(args[1], args[2])
    \/ \E path \in LoadPaths : load(path)
    \/ \E package_path \in PackagePaths : add_package(package_path)
    \/ \E args \in RemoveArgs : remove_package(args[1], args[2])
    \/ list_packages

Spec == Init /\ [][Next]_vars

-----------------------------------------------------------------------------
(* The store under a failing copy, and init as the command line calls it *)

\* add_package when fs::copy fails: either before the destination file is
\* created, or midway, leaving a destination that holds part of the bytes,
\* which the extractor cannot parse.  Nothing is rolled back.
AddOutcomeCopyFails(f, root, package_path, midway) ==
    LET package == Extract(f, package_path)
        package_dir == PackageDir(root, package.name, package.version)
        made == CreateDirAll(f, package_dir)
        dest == Append(package_dir, FileName(package_path))
    IN  IF ~CanExtract(f, package_path)
            THEN [status |-> "Extract", fs |-> f,
                  name |-> <<>>, version |-> <<>>, copying |-> FALSE]
        ELSE IF Exists(f, package_dir)
            THEN [status |-> "PackageAlreadyExists", fs |-> f,
                  name |-> package.name, version |-> package.version,
                  copying |-> FALSE]
        ELSE IF ~made.ok \/ ~CanWriteFile(made.fs, dest)
            THEN [status |-> "Io", fs |-> made.fs,
                  name |-> package.name, version |-> package.version,
                  copying |-> FALSE]
        ELSE [status |-> "Io",
              fs |-> IF midway THEN WriteFile(made.fs, dest, Junk) ELSE made.fs,
              name |-> package.name, version |-> package.version,
              copying |-> TRUE]

add_package_copy_fails(package_path, midway) ==
    /\ repo.open
    /\ LET out == AddOutcomeCopyFails(fs, repo.path, package_path, midway)
       IN  /\ fs' = out.fs
           /\ result' = [op |-> "add", root |-> repo.path,
                         package_path |-> package_path, status |-> out.status,
                         name |-> out.name, version |-> out.version]
           /\ stuck' = IF out.copying
                           THEN stuck \cup {Triple(repo.path, out.name, out.version)}
                           ELSE stuck
           /\ added' = IF out.fs # fs THEN [clean |-> FALSE, set |-> {}]
                       ELSE added
    /\ UNCHANGED <<repo, inited, removed, side>>

\* the defaults of the init subcommand
DEFAULT_NAME == <<".">>
DEFAULT_DIRECTORY == <<".">>
CURDIR == <<".">>

\* the path the kernel resolves a path string to in a process whose
\* current directory is cwd: "." components name the directory itself
AtCwd(cwd, s) ==
    LET c == SelectSeq(Components(s), LAMBDA x : x # CURDIR)
    IN  IF IsAbsolute(s) THEN c ELSE cwd \o c

\* main, subcommand init: Repository::init(name, directory), run in cwd
main_init(cwd, name, directory) == init(name, AtCwd(cwd, directory))

EnvCwds == {IN_DIR, OLD}
EnvLoadPaths == {OLD, OldEntry}
EnvPackagePaths == {FileA, FileBad}
EnvRemoveArgs ==
    { <<<<"m">>, <<"1">>>>,
      <<<<"a">>, <<"1">>>>,
      <<<<"a">>, <<"1", SEP, "..">>>>,
      <<<<"a">>, <<"1", SEP, "..", SEP, "..">>>> }

InitEnv ==
    /\ fs = OldWorld
    /\ repo = NoRepo
    /\ Fresh
    /\ AtRest

NextEnv ==
    \/ \E cwd \in EnvCwds : main_init(cwd, DEFAULT_NAME, DEFAULT_DIRECTORY)
    \/ \E path \in EnvLoadPaths : load(path)
    \/ \E package_path \in EnvPackagePaths : add_package(package_path)
    \/ \E package_path \in EnvPackagePaths, midway \in BOOLEAN :
           add_package_copy_fails(package_path, midway)
    \/ \E args \in EnvRemoveArgs : remove_package(args[1], args[2])
    \/ list_packages

SpecEnv == InitEnv /\ [][NextEnv]_vars

-----------------------------------------------------------------------------
(* add_package run by two processes on one repository: every system call   *)
(* of a process is a step, and the steps of the processes interleave        *)

\* the repository both processes loaded: the one init makes at FRESH
RaceWorld == InitOutcome(EmptyWorld, <<"demo">>, FRESH).fs
RaceRepo == Repository(FRESH, RepositoryConfig(<<"demo">>, InitVersion))
RacePaths == {FileA, FileA2, FileBad}

\* a creation of the entry directory that fails when the directory exists
CreateExclusive(f, package_dir) ==
    IF Exists(f, package_dir) THEN [ok |-> FALSE, fs |-> f]
    ELSE CreateDirAll(f, package_dir)

\* fs::create_dir_all(&package_dir)
CreateEntryDir(f, package_dir) == CreateDirAll(f, package_dir)

Done(package_path, name, version, status) ==
    [pc |-> "done", package_path |-> package_path, name |-> name,
     version |-> version, status |-> status]

\* the extraction and the existence check
add_check(p, package_path) ==
    /\ procs[p].pc \in {"idle", "done"}
    /\ LET package == Extract(fs, package_path)
           package_dir == PackageDir(repo.path, package.name, package.version)
       IN  procs' = [procs EXCEPT ![p] =
               IF ~CanExtract(fs, package_path)
                   THEN Done(package_path, <<>>, <<>>, "Extract")
               ELSE IF Exists(fs, package_dir)
                   THEN Done(package_path, package.name, package.version,
                             "PackageAlreadyExists")
               ELSE [pc |-> "create", package_path |-> package_path,
                     name |-> package.name, version |-> package.version,
                     status |-> ""]]
    /\ UNCHANGED <<fs, repo, result, inited, added, removed, stuck,
                   walk, url, params>>

\* the creation of the entry directory
add_create(p) ==
    /\ procs[p].pc = "create"
    /\ LET me == procs[p]
           made == CreateEntryDir(fs, PackageDir(repo.path, me.name, me.version))
       IN  /\ fs' = made.fs
           /\ procs' = [procs EXCEPT ![p] =
                  IF made.ok THEN [me EXCEPT !.pc = "copy"]
                  ELSE Done(me.package_path, me.name, me.version, "Io")]
    /\ UNCHANGED <<repo, result, inited, added, removed, stuck,
                   walk, url, params>>

\* the copy of the archive, and the return
add_copy(p) ==
    /\ procs[p].pc = "copy"
    /\ LET me == procs[p]
           dest == Append(PackageDir(repo.path, me.name, me.version),
                          FileName(me.package_path))
       IN  IF IsFile(fs, me.package_path) /\ CanWriteFile(fs, dest)
               THEN /\ fs' = WriteFile(fs, dest,
                               fs[Resolve(fs, me.package_path).at].content)
                    /\ procs' = [procs EXCEPT ![p] =
                           Done(me.package_path, me.name, me.version, "Ok")]
               ELSE /\ fs' = fs
                    /\ procs' = [procs EXCEPT ![p] =
                           Done(me.package_path, me.name, me.version, "Io")]
    /\ UNCHANGED <<repo, result, inited, added, removed, stuck,
                   walk, url, params>>

InitRace ==
    /\ fs = RaceWorld
    /\ repo = RaceRepo
    /\ Fresh
    /\ AtRest

NextRace ==
    \/ \E p \in Procs, package_path \in RacePaths : add_check(p, package_path)
    \/ \E p \in Procs : add_create(p)
    \/ \E p \in Procs : add_copy(p)

SpecRace == InitRace /\ [][NextRace]_vars

-----------------------------------------------------------------------------
(* Repository::load, one iteration of its loop per step *)

\* OldWorld with a second repository made by init below the first
NestedWorld == InitOutcome(OldWorld, <<"demo">>, FRESH).fs

WalkBases == LoadBases \cup {OldEntry}
WalkPaths ==
    {<<>>, OLD, FRESH, Append(FRESH, DOTDOT)}
        \cup {Deeper(b, k) : b \in WalkBases, k \in 0..(MaxDepth + 1)}

\* one iteration of the loop: look for config.toml in current_path; when it
\* is there, read and parse it and return; else go on with the parent, or
\* fail when there is none
LoadIteration(f, w) ==
    LET config_path == Join(w.current_path, CONFIG_TOML)
        seen == [w EXCEPT !.checked = Append(@, w.current_path)]
    IN  IF Exists(f, config_path)
            THEN IF ~IsFile(f, config_path)
                     \/ f[Resolve(f, config_path).at].content.t # "text"
                     THEN [seen EXCEPT !.pc = "done", !.status = "Io"]
                 ELSE LET parsed ==
                              FromToml(f[Resolve(f, config_path).at].content.text)
                      IN  IF parsed.ok
                              THEN [seen EXCEPT
                                       !.pc = "done", !.status = "Ok",
                                       !.repo = Repository(w.current_path,
                                                           parsed.config)]
                              ELSE [seen EXCEPT !.pc = "done",
                                                !.status = "TomlDe"]
        ELSE IF HasParent(w.current_path)
            THEN [seen EXCEPT !.current_path = Parent(@)]
        ELSE [seen EXCEPT !.pc = "done", !.status = "ConfigNotFound"]

\* an iteration that finds a parent of the root, the root itself (as ".."
\* of the root is), and so tries the root again and again
LoadStepStaysAtRoot(f, w) ==
    IF w.current_path = <<>> /\ ~Exists(f, Join(w.current_path, CONFIG_TOML))
        THEN w
        ELSE LoadIteration(f, w)

LoadStep(f, w) == LoadIteration(f, w)

\* let mut current_path = path.clone()
load_begin(path) ==
    /\ walk.pc \in {"idle", "done"}
    /\ walk' = [pc |-> "loop", start |-> path, current_path |-> path,
                checked |-> <<>>, status |-> "", repo |-> NoRepo]
    /\ UNCHANGED <<fs, repo, result, inited, added, removed, stuck,
                   procs, url, params>>

load_iterate ==
    /\ walk.pc = "loop"
    /\ walk' = LoadStep(fs, walk)
    /\ UNCHANGED <<fs, repo, result, inited, added, removed, stuck,
                   procs, url, params>>

InitWalk ==
    /\ fs \in {EmptyWorld, OldWorld, NestedWorld}
    /\ repo = NoRepo
    /\ Fresh
    /\ AtRest

NextWalk ==
    \/ \E path \in WalkPaths : load_begin(path)
    \/ load_iterate

\* the loop runs in the thread that called load and waits for nothing:
\* an iteration that can run does run
SpecWalk == InitWalk /\ [][NextWalk]_vars /\ WF_vars(load_iterate)

-----------------------------------------------------------------------------
(* Url (src/src/utils/url.rs): the query of a URL and the HashMap view of   *)
(* it.  A query is a string of tokens; "%26" and the like are one token.    *)

\* application/x-www-form-urlencoded, one token at a time
EncodeToken(t) ==
    CASE t = " " -> "+"
      [] t = "&" -> "%26"
      [] t = "=" -> "%3D"
      [] t = "+" -> "%2B"
      [] OTHER -> t
DecodeToken(t) ==
    CASE t = "+" -> " "
      [] t = "%26" -> "&"
      [] t = "%3D" -> "="
      [] t = "%2B" -> "+"
      [] OTHER -> t
Encode(str) == [i \in 1..Len(str) |-> EncodeToken(str[i])]
Decode(str) == [i \in 1..Len(str) |-> DecodeToken(str[i])]

\* index of the first token sep of str from i on, Len(str) + 1 without one
RECURSIVE FirstAt(_, _, _)
FirstAt(str, sep, i) ==
    IF i > Len(str) THEN i
    ELSE IF str[i] = sep THEN i
    ELSE FirstAt(str, sep, i + 1)

\* the segments of str between the tokens sep
RECURSIVE Split(_, _)
Split(str, sep) ==
    LET k == FirstAt(str, sep, 1)
    IN  IF k > Len(str) THEN <<str>>
        ELSE <<SubSeq(str, 1, k - 1)>> \o Split(SubSeq(str, k + 1, Len(str)), sep)

Pair(k, v) == [key |-> k, value |-> v]

\* form_urlencoded::parse: the segments between "&" that are not empty,
\* each cut at its first "=", both sides decoded
ParsePair(seg) ==
    LET k == FirstAt(seg, "=", 1)
    IN  Pair(Decode(SubSeq(seg, 1, k - 1)), Decode(SubSeq(seg, k + 1, Len(seg))))
QueryPairs(u) ==
    IF ~u.has_query THEN <<>>
    ELSE LET segs == SelectSeq(Split(u.query, "&"), LAMBDA seg : seg # <<>>)
         IN  [i \in 1..Len(segs) |-> ParsePair(segs[i])]

\* collect() into a HashMap: of the pairs with one key the last one stays
Collect(pairs) ==
    [k \in {pairs[i].key : i \in 1..Len(pairs)} |->
        pairs[CHOOSE i \in 1..Len(pairs) :
                  /\ pairs[i].key = k
                  /\ \A j \in (i + 1)..Len(pairs) : pairs[j].key # k].value]

\* Serializer::append_pair for the entries of map in the order given
RECURSIVE SerializeFrom(_, _, _)
SerializeFrom(map, order, i) ==
    IF i > Len(order) THEN <<>>
    ELSE (IF i > 1 THEN <<"&">> ELSE <<>>)
             \o Encode(order[i]) \o <<"=">> \o Encode(map[order[i]])
             \o SerializeFrom(map, order, i + 1)

\* the orders in which a HashMap may hand out its entries
Orders(map) ==
    {o \in [1..Cardinality(DOMAIN map) -> DOMAIN map] :
        \A i, j \in DOMAIN o : o[i] = o[j] => i = j}

BASE == <<"http://example.com/">>

\* Url::search and Url::href
search(u) == IF u.has_query THEN <<"?">> \o u.query ELSE <<>>
href(u) == BASE \o search(u)

\* the query strings of the URLs parsed: none, the one of the test, one
\* with a key twice, one with encoded tokens, an empty segment and a key
\* without "="
UrlQueries ==
    { [has_query |-> FALSE, query |-> <<>>],
      [has_query |-> TRUE, query |-> <<"a", "=", "1", "&", "b", "=", "2">>],
      [has_query |-> TRUE,
       query |-> <<"a", "=", "1", "&", "a", "=", "2", "&", "b", "=", "2">>],
      [has_query |-> TRUE,
       query |-> <<"c", "%26", "=", "2", "+", "&", "&", "b">>] }
ParamKeys == {<<"a">>, <<"b">>, <<"c">>}
ParamValues == {<<"3">>, <<"=", " ">>}

\* Url::new
Url_new(q) ==
    /\ url' = [parsed |-> TRUE, has_query |-> q.has_query, query |-> q.query]
    /\ params' = NoParams
    /\ UNCHANGED <<fs, repo, result, inited, added, removed, stuck, procs, walk>>

\* Url::search_params_mut: the pairs of the query, collected into a HashMap
\* the caller owns.  from, inserted and removed are history: the pairs the
\* query had then, and the keys the caller inserted and removed since.
search_params_mut ==
    /\ url.parsed
    /\ ~params.taken /\ ~params.moved
    /\ params' = [taken |-> TRUE, moved |-> FALSE,
                  map |-> Collect(QueryPairs(url)),
                  from |-> QueryPairs(url), inserted |-> {}, removed |-> {}]
    /\ UNCHANGED <<fs, repo, result, inited, added, removed, stuck, procs,
                   walk, url>>

\* HashMap::insert
params_insert(k, v) ==
    /\ params.taken
    /\ Cardinality(params.inserted \cup {k}) <= MaxEdits
    /\ params' = [params EXCEPT
           !.map = [x \in DOMAIN @ \cup {k} |-> IF x = k THEN v ELSE @[x]],
           !.inserted = @ \cup {k}]
    /\ UNCHANGED <<fs, repo, result, inited, added, removed, stuck, procs,
                   walk, url>>

\* HashMap::remove
params_remove(k) ==
    /\ params.taken
    /\ Cardinality(params.removed \cup {k}) <= MaxEdits
    /\ params' = [params EXCEPT
           !.map = [x \in DOMAIN @ \ {k} |-> @[x]],
           !.removed = @ \cup {k}]
    /\ UNCHANGED <<fs, repo, result, inited, added, removed, stuck, procs,
                   walk, url>>

\* Url::set_search_params: the entries of the map, serialized in the order
\* the map hands them out, become the query; the map is moved into the call
MovedParams == [taken |-> FALSE, moved |-> TRUE]

set_search_params ==
    /\ url.parsed
    /\ params.taken
    /\ \E order \in Orders(params.map) :
           url' = [url EXCEPT !.has_query = TRUE,
                              !.query = SerializeFrom(params.map, order, 1)]
    /\ params' = MovedParams
    /\ UNCHANGED <<fs, repo, result, inited, added, removed, stuck, procs, walk>>

InitUrl ==
    /\ fs = EmptyWorld
    /\ repo = NoRepo
    /\ Fresh
    /\ AtRest

NextUrl ==
    \/ \E q \in UrlQueries : Url_new(q)
    \/ search_params_mut
    \/ \E k \in ParamKeys, v \in ParamValues : params_insert(k, v)
    \/ \E k \in ParamKeys : params_remove(k)
    \/ set_search_params

SpecUrl == InitUrl /\ [][NextUrl]_vars

-----------------------------------------------------------------------------
(* Vocabulary of the claims *)

\* the first k components of p
Prefix(p, k) == SubSeq(p, 1, k)

\* directory d holds an entry named config.toml
HasConfig(f, d) == Append(d, CONFIG_TOML) \in DOMAIN f

\* directory d is the root of a repository: its config.toml parses
IsRepositoryRoot(f, d) ==
    /\ IsDirAt(f, d)
    /\ IsFileAt(f, Append(d, CONFIG_TOML))
    /\ f[Append(d, CONFIG_TOML)].content.t = "text"
    /\ FromToml(f[Append(d, CONFIG_TOML)].content.text).ok

\* no directory on the way to p is a regular file: p can name a directory
NoFileAbove(f, p) == \A k \in 0..(Len(p) - 1) : ~IsFileAt(f, Prefix(p, k))

InitedPaths == {i.path : i \in inited}

-----------------------------------------------------------------------------
(* C1..C5: init and load *)

\* C1: for any name and any path that does not exist and can name a
\* directory, init(name, path) succeeds, and a load(path) that follows it
\* returns the Repository rooted at path whose config is {name, "0.1.0"}.
C1_InitLoadRoundTrip ==
    [][ /\ (result'.op = "init"
              /\ ~Exists(fs, result'.path) /\ NoFileAbove(fs, result'.path))
           => /\ result'.status = "Ok"
              /\ repo' = Repository(result'.path,
                             RepositoryConfig(result'.name, INITIAL_VERSION))
        /\ (result.op = "init" /\ result.status = "Ok"
              /\ result'.op = "load" /\ result'.path = result.path)
           => /\ result'.status = "Ok"
              /\ result'.repo = Repository(result.path,
                                    RepositoryConfig(result.name, INITIAL_VERSION))
      ]_vars

\* a load of the path of an earlier init returned the name with the quote
C1_Witness ==
    /\ result.op = "load"
    /\ result.status = "Ok"
    /\ result.path = FRESH
    /\ result.repo.config = RepositoryConfig(<<"q", "\"">>, INITIAL_VERSION)
    /\ [path |-> FRESH, name |-> <<"q", "\"">>] \in inited

\* C2: init on a path that exists (a file, or a directory, even an empty
\* one) fails with AlreadyExists and leaves the file system as it was.
C2_InitRejectsExisting ==
    [][ (result'.op = "init" /\ Exists(fs, result'.path))
            => (result'.status = "AlreadyExists" /\ fs' = fs) ]_vars

\* init was refused on a directory that exists and is empty
C2_Witness ==
    /\ result.op = "init"
    /\ result.status = "AlreadyExists"
    /\ IsDirAt(fs, result.path)
    /\ Children(fs, result.path) = {}

\* C3 as stated: with a repository rooted at R, a load from any directory
\* below R that has no config.toml of its own returns the Repository rooted
\* at R.
C3_Original ==
    \A R \in DOMAIN fs :
        (/\ result.op = "load"
         /\ IsRepositoryRoot(fs, R)
         /\ IsStrictPrefix(R, result.path)
         /\ IsDirAt(fs, result.path)
         /\ ~HasConfig(fs, result.path))
        => (result.status = "Ok" /\ result.repo.path = R)

\* C3 amended: with a repository rooted at R, a load from any directory
\* below R such that neither it nor any directory between it and R has a
\* config.toml returns the Repository rooted at R.
C3_LoadSearchesUpward ==
    \A R \in DOMAIN fs :
        (/\ result.op = "load"
         /\ IsRepositoryRoot(fs, R)
         /\ IsStrictPrefix(R, result.path)
         /\ IsDirAt(fs, result.path)
         /\ \A k \in (Len(R) + 1)..Len(result.path) :
                ~HasConfig(fs, Prefix(result.path, k)))
        => (result.status = "Ok" /\ result.repo.path = R)

\* a load from a directory two levels below a repository root found it,
\* while a repository nested deeper exists too
C3_Witness ==
    /\ result.op = "load"
    /\ result.status = "Ok"
    /\ result.path = Parent(FRESH)
    /\ IsDirAt(fs, result.path)
    /\ result.repo.path = OLD
    /\ IsRepositoryRoot(fs, FRESH)

\* the nearest directory of the chain p, parent(p), ... holding config.toml
HasNearest(f, p) == \E k \in 0..Len(p) : HasConfig(f, Prefix(p, k))
Nearest(f, p) ==
    Prefix(p, CHOOSE k \in 0..Len(p) :
                  /\ HasConfig(f, Prefix(p, k))
                  /\ \A j \in (k + 1)..Len(p) : ~HasConfig(f, Prefix(p, j)))

\* C4: load(startPath) returns the Repository rooted at the nearest
\* directory of the chain startPath, parent(startPath), ... that holds
\* config.toml, with the config stored there.
C4_LoadNearest ==
    (result.op = "load" /\ HasNearest(fs, result.path))
        => /\ result.status = "Ok"
           /\ result.repo.path = Nearest(fs, result.path)
           /\ ToToml(result.repo.config)
                  = fs[Append(result.repo.path, CONFIG_TOML)].content.text

\* a load from inside the store of a nested repository returned the inner
\* repository although the outer one has a config.toml too
C4_Witness ==
    /\ result.op = "load"
    /\ result.status = "Ok"
    /\ result.path = Append(FRESH, PACKAGES)
    /\ result.repo.path = FRESH
    /\ HasConfig(fs, OLD)

\* C5: a load from a directory such that neither it nor any ancestor holds
\* config.toml fails with ConfigNotFound.
C5_LoadConfigNotFound ==
    (result.op = "load" /\ ~HasNearest(fs, result.path))
        => (result.status = "ConfigNotFound" /\ result.repo = NoRepo)

\* a load from an existing directory without a config above it failed
C5_Witness ==
    /\ result.op = "load"
    /\ result.status = "ConfigNotFound"
    /\ result.path = IN_DIR
    /\ IsDirAt(fs, result.path)

-----------------------------------------------------------------------------
(* C6..C10: the package store *)

\* the archives stored in the entry directory of (name, version) under root
\* whose metadata is (name, version)
StoredAs(f, root, name, version) ==
    {q \in Children(f, Append(Append(root, PACKAGES), EntryName(name, version))) :
        /\ IsFileAt(f, q)
        /\ f[q].content.t = "ipak"
        /\ PackageData(f[q].content.name, f[q].content.version)
               = PackageData(name, version)}

\* C6: an add_package of an archive whose (name, version) is stored already
\* fails with PackageAlreadyExists(name, version) and changes no file, so
\* the stored archive stays as the first add wrote it; and what a successful
\* add stores is byte-identical to its source.
C6_AddNeverOverwrites ==
    [][ /\ (/\ result'.op = "add"
            /\ CanExtract(fs, result'.package_path)
            /\ StoredAs(fs, result'.root,
                        Extract(fs, result'.package_path).name,
                        Extract(fs, result'.package_path).version) # {})
           => /\ result'.status = "PackageAlreadyExists"
              /\ PackageData(result'.name, result'.version)
                     = Extract(fs, result'.package_path)
              /\ fs' = fs
        /\ (result'.op = "add" /\ result'.status = "Ok")
           => LET dest == Append(PackageDir(result'.root, result'.name,
                                            result'.version),
                                 FileName(result'.package_path))
              IN  /\ IsFileAt(fs', dest)
                  /\ fs'[dest] = fs[result'.package_path]
                  /\ fs'[result'.package_path] = fs[result'.package_path]
      ]_vars

\* the second archive with the pair (a, 1) was refused, and the entry still
\* holds the bytes of the first one
C6_Witness ==
    /\ result.op = "add"
    /\ result.status = "PackageAlreadyExists"
    /\ result.package_path = FileA2
    /\ StoredAs(fs, result.root, <<"a">>, <<"1">>)
           = {Append(PackageDir(result.root, <<"a">>, <<"1">>), FileName(FileA))}
    /\ \A q \in StoredAs(fs, result.root, <<"a">>, <<"1">>) :
           fs[q].content.bytes = "A"

\* C7: once remove_package(name, version) has succeeded, no list_packages
\* returns a descriptor (name, version) until that pair is added again, and
\* a remove_package(name, version) with no successful add in between fails
\* with PackageNotFound.
C7_RemoveThenList ==
    [][ /\ (result'.op = "list" /\ result'.status = "Ok")
           => \A r \in removed' :
                  r.root = result'.root
                      => PackageData(r.name, r.version)
                             \notin DOMAIN result'.packages
        /\ (/\ result'.op = "remove"
            /\ [root |-> result'.root, name |-> result'.name,
                version |-> result'.version, quiet |-> TRUE] \in removed)
           => result'.status = "PackageNotFound"
      ]_vars

\* a listing that succeeded with descriptors in it, on a store from which
\* a pair was removed and not added again
C7_Witness ==
    /\ result.op = "list"
    /\ result.status = "Ok"
    /\ DOMAIN result.packages # {}
    /\ \E r \in removed : r.root = result.root /\ ~r.quiet

\* the descriptors of the triples added to root, each once
AddedBag(root) ==
    [pd \in {PackageData(t.name, t.version) : t \in {x \in added.set : x.root = root}}
        |-> 1]

\* C8 as stated: in a repository made by init to which only packages with
\* pairwise distinct (name, version) pairs are added, every add succeeds,
\* and list_packages returns exactly one descriptor per added package.
C8_Original ==
    [][ /\ (/\ result'.op = "add"
            /\ added.clean
            /\ result'.root \in InitedPaths
            /\ CanExtract(fs, result'.package_path)
            /\ Triple(result'.root,
                      Extract(fs, result'.package_path).name,
                      Extract(fs, result'.package_path).version) \notin added.set)
           => result'.status = "Ok"
        /\ (/\ result'.op = "list"
            /\ added'.clean
            /\ result'.root \in InitedPaths)
           => /\ result'.status = "Ok"
              /\ result'.packages = AddedBag(result'.root)
      ]_vars

\* the archive files a listing is about: the regular files with the archive
\* extension whose directory is directly in packages/
ArchiveFilesOf(f, root) ==
    {q \in DOMAIN f :
        /\ Len(q) = Len(root) + 3
        /\ Prefix(q, Len(root) + 1) = Append(root, PACKAGES)
        /\ IsDirAt(f, Parent(q))
        /\ f[q].kind = "file"
        /\ HasExtension(q)
        /\ Extension(q) = IPAK}

\* C9: when packages/ can be read and every extraction succeeds,
\* list_packages succeeds and returns one descriptor per archive file of an
\* immediate subdirectory of packages/, and nothing else.
C9_ListIsProjection ==
    (/\ result.op = "list"
     /\ IsDirAt(fs, Append(result.root, PACKAGES))
     /\ \A q \in ArchiveFilesOf(fs, result.root) : fs[q].content.t = "ipak")
    => /\ result.status = "Ok"
       /\ BagCardinality(result.packages)
              = Cardinality(ArchiveFilesOf(fs, result.root))
       /\ \A q \in ArchiveFilesOf(fs, result.root) :
              /\ PackageData(fs[q].content.name, fs[q].content.version)
                     \in DOMAIN result.packages
              /\ result.packages[PackageData(fs[q].content.name,
                                             fs[q].content.version)]
                     = Cardinality({o \in ArchiveFilesOf(fs, result.root) :
                           PackageData(fs[o].content.name, fs[o].content.version)
                               = PackageData(fs[q].content.name,
                                             fs[q].content.version)})

\* a listing of a store with an archive directly in packages/, a text file
\* and two archives in one entry, and one more entry
C9_Witness ==
    /\ result.op = "list"
    /\ result.status = "Ok"
    /\ result.root = OLD
    /\ BagCardinality(result.packages) = 3
    /\ IsFileAt(fs, Append(OldPackages, <<"stray", ".", "ipak">>))
    /\ IsFileAt(fs, Append(OldEntry, <<"notes", ".", "txt">>))

\* C10 as stated: after a successful init(name, path), whatever add_package,
\* remove_package and list_packages calls follow, path holds the directory
\* packages/ and the config.toml that init wrote.
C10_Original ==
    \A i \in inited :
        /\ IsDirAt(fs, Append(i.path, PACKAGES))
        /\ IsFileAt(fs, Append(i.path, CONFIG_TOML))
        /\ fs[Append(i.path, CONFIG_TOML)].content
               = Text(ToToml(RepositoryConfig(i.name, INITIAL_VERSION)))

-----------------------------------------------------------------------------
(* C11..C14, C19: failures and frames of the store operations *)

\* C11: an add_package that fails before it creates the entry directory,
\* because the extraction fails or because the entry directory exists,
\* leaves every file and directory as it was: nothing is created, nothing
\* is copied, the source archive is untouched.
C11_AddFailsClean ==
    [][ (/\ result'.op = "add"
         /\ \/ ~CanExtract(fs, result'.package_path)
            \/ Exists(fs, PackageDir(result'.root,
                                     Extract(fs, result'.package_path).name,
                                     Extract(fs, result'.package_path).version)))
        => /\ result'.status =
                  (IF CanExtract(fs, result'.package_path)
                       THEN "PackageAlreadyExists" ELSE "Extract")
           /\ fs' = fs
      ]_vars

\* the add of the archive (a-1, 2) was refused because the entry a-1-2
\* exists, made for (a, 1-2); the entry holds nothing of the refused archive
C11_Witness ==
    /\ result.op = "add"
    /\ result.status = "PackageAlreadyExists"
    /\ result.package_path = FileH
    /\ Children(fs, PackageDir(result.root, result.name, result.version))
           = {Append(PackageDir(result.root, result.name, result.version),
                     FileName(FileK))}
    /\ fs[FileH] = EmptyWorld[FileH]

\* the paths at which two file systems differ
Changed(f, g) ==
    {q \in DOMAIN f \cup DOMAIN g :
        \/ q \notin DOMAIN f
        \/ q \notin DOMAIN g
        \/ f[q] # g[q]}

\* q is an entry of the store of root, or lies inside one
InEntry(root, q) ==
    /\ Len(q) >= Len(root) + 2
    /\ Prefix(q, Len(root) + 1) = Append(root, PACKAGES)

\* C12 as stated: remove_package(name, version) succeeds exactly when
\* packages/{name}-{version} exists; on success that entry and its contents
\* are gone and no other entry changed; when it does not exist the call
\* fails with PackageNotFound("{name}-{version}") and changes nothing.
C12_Original ==
    [][ result'.op = "remove"
        => LET package_dir == PackageDir(result'.root, result'.name,
                                         result'.version)
           IN  IF Exists(fs, package_dir)
                   THEN /\ result'.status = "Ok"
                        /\ ~Exists(fs', package_dir)
                        /\ \A q \in Changed(fs, fs') :
                               IsPrefix(Resolve(fs, package_dir).at, q)
                   ELSE /\ result'.status = "PackageNotFound"
                        /\ result'.err = EntryName(result'.name, result'.version)
                        /\ fs' = fs
      ]_vars

C19_Original ==
    [][ result'.op \in {"add", "remove"}
        => /\ \A q \in Changed(fs, fs') : InEntry(result'.root, q)
           /\ \A q1, q2 \in Changed(fs, fs') :
                  q1[Len(result'.root) + 2] = q2[Len(result'.root) + 2]
      ]_vars

-----------------------------------------------------------------------------
(* C13, C17, C20: under SpecEnv *)

\* C13: when packages/ cannot be read, or the extraction fails for one of
\* the archive files of the entries, list_packages returns an error and no
\* descriptor at all, whatever other archives the store holds and could
\* parse; it never returns a partial list.
C13_ListFailFast ==
    (/\ result.op = "list"
     /\ \/ ~IsDirAt(fs, Append(result.root, PACKAGES))
        \/ \E q \in ArchiveFilesOf(fs, result.root) : fs[q].content.t # "ipak")
    => /\ result.status \in {"Io", "Extract"}
       /\ result.packages = EmptyBag

\* a listing failed on the partly copied archive of one entry while another
\* entry holds two archives that parse
C13_Witness ==
    /\ result.op = "list"
    /\ result.status = "Extract"
    /\ result.packages = EmptyBag
    /\ \E q \in ArchiveFilesOf(fs, result.root) : fs[q].content.t # "ipak"
    /\ Cardinality({q \in ArchiveFilesOf(fs, result.root) :
                        fs[q].content.t = "ipak"}) = 2

\* C17 as stated: when add_package fails in the copy step the entry
\* directory stays, and every later add_package of the same (name, version)
\* fails with PackageAlreadyExists until remove_package(name, version) is
\* called.
C17_Original ==
    [][ /\ \A t \in stuck' \ stuck :
               IsDirAt(fs', PackageDir(t.root, t.name, t.version))
        /\ (/\ result'.op = "add"
            /\ CanExtract(fs, result'.package_path)
            /\ Triple(result'.root,
                      Extract(fs, result'.package_path).name,
                      Extract(fs, result'.package_path).version) \in stuck)
           => result'.status = "PackageAlreadyExists"
      ]_vars

\* C20 as stated: the init subcommand with its default directory, run in a
\* current directory that holds no repository, creates one there; it fails
\* with AlreadyExists only where a repository is present.
C20_Original ==
    [][ (/\ result'.op = "init"
         /\ result'.name = DEFAULT_NAME
         /\ \E cwd \in EnvCwds :
                result'.path = AtCwd(cwd, DEFAULT_DIRECTORY))
        => IF HasConfig(fs, result'.path)
               THEN result'.status = "AlreadyExists"
               ELSE result'.status = "Ok" /\ IsRepositoryRoot(fs', result'.path)
      ]_vars

-----------------------------------------------------------------------------
(* C16: under SpecRace *)

\* C16: the existence check and the creation of the entry directory are
\* separate steps, and the creation accepts a directory that exists: a
\* process that has passed the check goes on to create, copy and return
\* success whatever the other process did to the entry in between, so when
\* both pass the check for one (name, version) both return success and
\* neither reports PackageAlreadyExists.
C16_RaceBothSucceed ==
    [][ \A p \in Procs :
            (procs[p].pc \in {"create", "copy"} /\ procs'[p] # procs[p])
            => /\ procs'[p].pc \in {"copy", "done"}
               /\ procs'[p].pc = "done" => procs'[p].status = "Ok"
      ]_vars

\* both processes returned success for archives with the same (name,
\* version), and the entry holds the files of both
C16_Witness ==
    /\ \A p \in Procs : procs[p].pc = "done" /\ procs[p].status = "Ok"
    /\ procs["p1"].package_path = FileA
    /\ procs["p2"].package_path = FileA2
    /\ procs["p1"].name = procs["p2"].name
    /\ procs["p1"].version = procs["p2"].version
    /\ Cardinality(Children(fs, PackageDir(FRESH, <<"a">>, <<"1">>))) = 2

-----------------------------------------------------------------------------
(* C18: under SpecWalk *)

\* the path d/config.toml exists
ConfigIn(f, d) == Exists(f, Join(d, CONFIG_TOML))

\* the paths checked so far are the chain start, parent(start), ... in that
\* order, each once; the walk went on only past those without config.toml;
\* it ended at the first one that holds config.toml, or with ConfigNotFound
\* after the root; and it returns what load returns
WalkInOrder ==
    walk.pc # "idle"
    => /\ Len(walk.checked) <= Len(walk.start) + 1
       /\ \A i \in 1..Len(walk.checked) :
              walk.checked[i] = Prefix(walk.start, Len(walk.start) + 1 - i)
       /\ \A i \in 1..(Len(walk.checked) - 1) :
              ~ConfigIn(fs, walk.checked[i])
       /\ walk.pc = "loop"
              => /\ walk.current_path
                       = Prefix(walk.start, Len(walk.start) - Len(walk.checked))
                 /\ \A i \in 1..Len(walk.checked) :
                        ~ConfigIn(fs, walk.checked[i])
       /\ walk.pc = "done"
              => /\ IF walk.status = "ConfigNotFound"
                        THEN /\ Len(walk.checked) = Len(walk.start) + 1
                             /\ ~ConfigIn(fs, <<>>)
                        ELSE ConfigIn(fs, walk.checked[Len(walk.checked)])
                 /\ [status |-> walk.status, repo |-> walk.repo]
                        = LoadOutcome(fs, walk.start)

\* C18: load terminates for every start path: the walk checks the
\* directories of the chain startPath, parent, ..., root at most once each,
\* nearest first, and ends at the first one that holds config.toml or with
\* ConfigNotFound when no parent remains.
C18_LoadTerminates ==
    /\ []WalkInOrder
    /\ (walk.pc = "loop") ~> (walk.pc = "done")

\* a load from four levels down, with no config.toml on the way, ended with
\* ConfigNotFound after it had checked the five directories up to the root
C18_Witness ==
    /\ walk.pc = "done"
    /\ walk.status = "ConfigNotFound"
    /\ walk.start = Append(FRESH, PACKAGES)
    /\ Len(walk.checked) = Len(walk.start) + 1
    /\ walk.checked[Len(walk.checked)] = <<>>

-----------------------------------------------------------------------------
(* C15: under SpecUrl *)

\* the pairs of a sequence of pairs, as a set
PairSet(pairs) == {pairs[i] : i \in 1..Len(pairs)}

=============================================================================
